---- MODULE Spec2Model ----
(***************************************************************************)
(* CF_ObjectManager (ObjectManager.c): the registry of world objects and   *)
(* the hide / unhide transitions on them.                                  *)
(*                                                                         *)
(* The registry is the pair m_RegisteredObjects (map Object -> link) and   *)
(* m_RegisteredObjectsArray (array of links).  A link is a heap object     *)
(* with the fields flags, eventMask, hidden and the object it points to.   *)
(* The world objects carry the engine state the manager reads and writes:  *)
(* flags, event mask and position (the translation row of the transform).  *)
(***************************************************************************)
EXTENDS Integers, Sequences, FiniteSets, TLC

(***************************************************************************)
(* Bounds of the model.                                                    *)
(***************************************************************************)
\* an object is followed until it is parked (displaced and not brought back)
\* more often than this
MaxParked == 1
\* longest array handed to HideMapObjects / UnhideMapObjects
MaxBatchLen == 2
\* width of the flag and event-mask words of the model
FlagBits == 2

(***************************************************************************)
(* The world.  A is a house, B a tree, C an object that is no map object.  *)
(***************************************************************************)
NULL == "NULL"
Objects == {"A", "B", "C"}
ObjectsOrNull == Objects \cup {NULL}

NoLink == 0
LinkIds == 1..Cardinality(Objects)
LinkSlot == <<"A", "B", "C">>

\* positions are counted in units of 2^-13 m, the float32 resolution below 2048 m
UnitsPerMetre == 2^13
Metres(n) == n * UnitsPerMetre

HIDE_OBJECT_AXIS_OFFSET == 10000

(***************************************************************************)
(* float32 arithmetic on multiples of 2^-13: 24 bits of mantissa, round to *)
(* nearest, ties to even.                                                  *)
(***************************************************************************)
Abs(n) == IF n < 0 THEN 0 - n ELSE n

RECURSIVE F32Step(_, _)
F32Step(a, s) == IF a \div s < 2^24 THEN s ELSE F32Step(a, 2 * s)

F32(n) ==
    LET a == Abs(n)
        s == F32Step(a, 1)
        q == a \div s
        r == a % s
        up == (2 * r > s) \/ (2 * r = s /\ q % 2 = 1)
        m == (IF up THEN q + 1 ELSE q) * s
    IN  IF n < 0 THEN 0 - m ELSE m

Vector(x, y, z) == <<Metres(x), Metres(y), Metres(z)>>
VecSub(u, v) == <<F32(u[1] - v[1]), F32(u[2] - v[2]), F32(u[3] - v[3])>>
VecAdd(u, v) == <<F32(u[1] + v[1]), F32(u[2] + v[2]), F32(u[3] + v[3])>>

(***************************************************************************)
(* Bit operations of the engine's flag words.                              *)
(***************************************************************************)
RECURSIVE BitAnd(_, _, _)
BitAnd(a, b, n) ==
    IF n = 0 THEN 0
    ELSE (IF a % 2 = 1 /\ b % 2 = 1 THEN 1 ELSE 0)
         + 2 * BitAnd(a \div 2, b \div 2, n - 1)

\* Object.ClearFlags / Object.ClearEventMask
ClearBits(word, mask) == word - BitAnd(word, mask, FlagBits)
\* Object.SetFlags / Object.SetEventMask
SetBits(word, mask) == word + mask - BitAnd(word, mask, FlagBits)

(***************************************************************************)
(* Engine attributes of the world objects that never change.               *)
(***************************************************************************)
\* Object.IsKindOf("House"), Object.IsTree(), Object.IsBush(), and whether the
\* object was baked in with no config (GetType() empty and Type() == Object)
IsKindOfHouse(object) == object = "A"
IsTree(object) == object = "B"
IsBush(object) == FALSE
IsUntypedBaked(object) == FALSE

\* Object.CanAffectPathgraph()
CanAffectPathgraph(object) == object \in {"A", "C"}
\* Object.ClippingInfo(): the radius, in metres
ClippingInfo(object) == IF object = "A" THEN 8 ELSE 2

\* where the objects stand when the mission starts
InitialPosition(object) ==
    CASE object = "A" -> <<10113580, Metres(100), Metres(2500)>>
      [] object = "B" -> <<Metres(1000), Metres(3), Metres(1000)>>
      [] OTHER        -> <<10113588, Metres(160), Metres(2501)>>

\* flag word and event mask the engine may give a visible object
EngineWords == {<<3, 1>>, <<1, 0>>}
\* the objects whose words the engine changes
EngineTouched == {"A"}

VARIABLES
    flags,                      \* Object.GetFlags() of every object
    eventMask,                  \* Object.GetEventMask() of every object
    position,                   \* Object.GetPosition() of every object
    m_RegisteredObjects,        \* the map: object -> link id, NoLink if no key
    m_RegisteredObjectsArray,   \* the array of link ids
    links,                      \* the heap of CF_ObjectManager_ObjectLink
    alive,                      \* FALSE once _Cleanup has deleted the containers
    last,                       \* the call that was made last, with its result
    held,                       \* the array the last query gave to its caller
    pending                     \* history: the objects with a HideMapObject that
                                \* succeeded and no UnhideMapObject that
                                \* succeeded, and no UnregisterObject, since

vars == <<flags, eventMask, position, m_RegisteredObjects,
          m_RegisteredObjectsArray, links, alive, last, held, pending>>

\* a slot of the heap that holds no link
Freed == [ptr |-> NULL, flags |-> 0, eventMask |-> 0, hidden |-> FALSE]

\* the program state the operations work on; upd collects the requests to
\* g_Game.UpdatePathgraphRegion made during one call
St == [flags |-> flags, eventMask |-> eventMask, pos |-> position,
       map |-> m_RegisteredObjects, arr |-> m_RegisteredObjectsArray,
       links |-> links, upd |-> <<>>]

(***************************************************************************)
(* map<Object, ref link> and array<link> of the script engine.             *)
(***************************************************************************)
\* map.Get (operator []): the null link when the key is absent
MapGet(st, object) == IF object = NULL THEN NoLink ELSE st.map[object]
\* map.Contains
MapContains(st, object) == MapGet(st, object) # NoLink
\* the keys as GetKey(0), GetKey(1), ... lists them: the engine does not say
\* in which order, keyOrder is the order it happens to use for all objects
MapKeys(st, keyOrder) == SelectSeq(keyOrder, LAMBDA o : st.map[o] # NoLink)
\* map.Count
MapCount(st) == Cardinality({o \in Objects : st.map[o] # NoLink})
\* map.GetKey
MapGetKey(st, keyOrder, n) == MapKeys(st, keyOrder)[n + 1]

\* array.Find: the index (from 0) of the first occurrence, -1 if none
ArrayFind(arr, link) ==
    IF \E i \in 1..Len(arr) : arr[i] = link
    THEN (CHOOSE i \in 1..Len(arr) :
            arr[i] = link /\ \A j \in 1..(i - 1) : arr[j] # link) - 1
    ELSE 0 - 1

\* array.Remove(index): the last element takes the place of the removed
\* one (RemoveOrdered is the variant that keeps the order)
ArrayRemove(arr, idx) ==
    LET n == Len(arr)
    IN  [i \in 1..(n - 1) |-> IF i = idx + 1 THEN arr[n] ELSE arr[i]]

\* new CF_ObjectManager_ObjectLink(object): the address of the new link.  The
\* heap keeps one slot per object; the slot is free when the link is made,
\* since a link is made only for an object the map has no link for, and a
\* link leaves the heap when it leaves the map
NewLink(st, object) == CHOOSE id \in LinkIds : LinkSlot[id] = object

\* the link leaves the heap (delete link, or its last reference is dropped)
DeleteLink(st, link) == [st EXCEPT !.links[link] = Freed]

(***************************************************************************)
(* The operations of CF_ObjectManager.  Each takes the program state and   *)
(* yields [st |-> the state it leaves, ret |-> what it returns].           *)
(***************************************************************************)
IsMapObject(object) ==
    IF object = NULL THEN FALSE
    ELSE IsUntypedBaked(object) \/ IsKindOfHouse(object)
         \/ IsTree(object) \/ IsBush(object)

\* IsMapObjectHidden with the wrong answer for an object without a link
IsMapObjectHidden_TrueIfAbsent(st, object) ==
    IF ~MapContains(st, object) THEN TRUE
    ELSE st.links[MapGet(st, object)].hidden

IsMapObjectHidden(st, object) ==
    IF ~MapContains(st, object) THEN FALSE
    ELSE st.links[MapGet(st, object)].hidden

IsObjectRegistered(st, object) == MapContains(st, object)

\* RegisterObject that reads the flags and the event mask again when the
\* object has a link already
RegisterObject_Recaptures(st, object) ==
    LET link == MapGet(st, object)
        new == NewLink(st, object)
    IN  IF link # NoLink
        THEN [st |-> [st EXCEPT !.links[link].flags = st.flags[object],
                                !.links[link].eventMask = st.eventMask[object]],
              ret |-> link]
        ELSE [st |-> [st EXCEPT
                        !.links[new] = [ptr |-> object,
                                        flags |-> st.flags[object],
                                        eventMask |-> st.eventMask[object],
                                        hidden |-> FALSE],
                        !.arr = Append(st.arr, new),
                        !.map[object] = new],
              ret |-> new]

RegisterObject(st, object) ==
    LET link == MapGet(st, object)
        new == NewLink(st, object)
    IN  IF link # NoLink THEN [st |-> st, ret |-> link]
        ELSE [st |-> [st EXCEPT
                        !.links[new] = [ptr |-> object,
                                        flags |-> st.flags[object],
                                        eventMask |-> st.eventMask[object],
                                        hidden |-> FALSE],
                        !.arr = Append(st.arr, new),
                        !.map[object] = new],
              ret |-> new]

\* _UnregisterObject that shortens the array by its last element, without
\* moving that element to the place of the link
_UnregisterObject_DropsLast(st, object) ==
    LET link == MapGet(st, object)
        idx == ArrayFind(st.arr, link)
    IN  IF link = NoLink THEN [st |-> st, ret |-> NoLink]
        ELSE [st |-> [st EXCEPT
                        !.map[object] = NoLink,
                        !.arr = IF idx # 0 - 1
                                THEN SubSeq(st.arr, 1, Len(st.arr) - 1)
                                ELSE st.arr],
              ret |-> link]

\* _UnregisterObject that takes the link out of the map only
_UnregisterObject_MapOnly(st, object) ==
    LET link == MapGet(st, object)
    IN  IF link = NoLink THEN [st |-> st, ret |-> NoLink]
        ELSE [st |-> [st EXCEPT !.map[object] = NoLink], ret |-> link]

_UnregisterObject(st, object) ==
    LET link == MapGet(st, object)
        idx == ArrayFind(st.arr, link)
    IN  IF link = NoLink THEN [st |-> st, ret |-> NoLink]
        ELSE [st |-> [st EXCEPT
                        !.map[object] = NoLink,
                        !.arr = IF idx # 0 - 1 THEN ArrayRemove(st.arr, idx)
                                ELSE st.arr],
              ret |-> link]

UnregisterObject(st, object) ==
    LET link == MapGet(st, object)
        idx == ArrayFind(st.arr, link)
    IN  IF link = NoLink THEN [st |-> st, ret |-> NULL]
        ELSE [st |-> DeleteLink(
                       [st EXCEPT
                          !.map[object] = NoLink,
                          !.arr = IF idx # 0 - 1 THEN ArrayRemove(st.arr, idx)
                                  ELSE st.arr],
                       link),
              ret |-> NULL]

\* g_Game.UpdatePathgraphRegion(centre - radius, centre + radius)
UpdatePathgraphRegion(st, centre, objectRadius) ==
    LET radiusVector == Vector(objectRadius, objectRadius, objectRadius)
    IN  [st EXCEPT !.upd = Append(st.upd, [min |-> VecSub(centre, radiusVector),
                                           max |-> VecAdd(centre, radiusVector),
                                           world |-> st.pos])]

HideOffset == Vector(HIDE_OBJECT_AXIS_OFFSET, HIDE_OBJECT_AXIS_OFFSET,
                     HIDE_OBJECT_AXIS_OFFSET)

\* HideMapObject past its two checks, with the path graph update around the
\* place the object has been moved to
HideRegistered_ParkedCentre(st, object, updatePathGraph) ==
      LET reg == RegisterObject(st, object)
          link == reg.ret
          s1 == [reg.st EXCEPT !.links[link].hidden = TRUE]
          s2 == [s1 EXCEPT
                   !.flags[object] = ClearBits(@, s1.links[link].flags),
                   !.eventMask[object] = ClearBits(@, s1.links[link].eventMask),
                   !.pos[object] = VecSub(@, HideOffset)]
          s3 == IF updatePathGraph /\ CanAffectPathgraph(object)
                THEN UpdatePathgraphRegion(s2, s2.pos[object],
                                           ClippingInfo(object))
                ELSE s2
      IN  [st |-> s3, ret |-> object]

\* HideMapObject past its two checks
HideRegistered(st, object, updatePathGraph) ==
      LET originalPosition == st.pos[object]
          reg == RegisterObject(st, object)
          link == reg.ret
          s1 == [reg.st EXCEPT !.links[link].hidden = TRUE]
          s2 == [s1 EXCEPT
                   !.flags[object] = ClearBits(@, s1.links[link].flags),
                   !.eventMask[object] = ClearBits(@, s1.links[link].eventMask),
                   !.pos[object] = VecSub(@, HideOffset)]
          s3 == IF updatePathGraph /\ CanAffectPathgraph(object)
                THEN UpdatePathgraphRegion(s2, originalPosition,
                                           ClippingInfo(object))
                ELSE s2
      IN  [st |-> s3, ret |-> object]

\* HideMapObject that asks only whether there is an object
HideMapObject_NullCheckOnly(st, object, updatePathGraph) ==
    IF object = NULL THEN [st |-> st, ret |-> NULL]
    ELSE IF IsMapObjectHidden(st, object) THEN [st |-> st, ret |-> NULL]
    ELSE HideRegistered(st, object, updatePathGraph)

\* HideMapObject that does not ask whether the object is hidden already
HideMapObject_NoHiddenCheck(st, object, updatePathGraph) ==
    IF ~IsMapObject(object) THEN [st |-> st, ret |-> NULL]
    ELSE HideRegistered(st, object, updatePathGraph)

HideMapObject(st, object, updatePathGraph) ==
    IF ~IsMapObject(object) THEN [st |-> st, ret |-> NULL]
    ELSE IF IsMapObjectHidden(st, object) THEN [st |-> st, ret |-> NULL]
    ELSE HideRegistered(st, object, updatePathGraph)

\* UnhideMapObject that does not look at link.hidden
UnhideMapObject_NoHiddenCheck(st, object, updatePathGraph) ==
    LET unreg == _UnregisterObject(st, object)
        link == unreg.ret
    IN  IF link = NoLink THEN [st |-> unreg.st, ret |-> NULL]
        ELSE
          LET s1 == [unreg.st EXCEPT
                       !.pos[object] = VecAdd(@, HideOffset),
                       !.flags[object] = SetBits(@, unreg.st.links[link].flags),
                       !.eventMask[object] =
                           SetBits(@, unreg.st.links[link].eventMask)]
              s2 == IF updatePathGraph /\ CanAffectPathgraph(object)
                    THEN UpdatePathgraphRegion(s1, s1.pos[object],
                                               ClippingInfo(object))
                    ELSE s1
          IN  [st |-> DeleteLink(s2, link), ret |-> object]

UnhideMapObject(st, object, updatePathGraph) ==
    LET unreg == _UnregisterObject(st, object)
        link == unreg.ret
    IN  IF link = NoLink THEN [st |-> unreg.st, ret |-> NULL]
        ELSE IF ~unreg.st.links[link].hidden
        THEN \* nothing refers to the link any more once the call returns
             [st |-> DeleteLink(unreg.st, link), ret |-> NULL]
        ELSE
          LET s1 == [unreg.st EXCEPT
                       !.pos[object] = VecAdd(@, HideOffset),
                       !.flags[object] = SetBits(@, unreg.st.links[link].flags),
                       !.eventMask[object] =
                           SetBits(@, unreg.st.links[link].eventMask)]
              s2 == IF updatePathGraph /\ CanAffectPathgraph(object)
                    THEN UpdatePathgraphRegion(s1, s1.pos[object],
                                               ClippingInfo(object))
                    ELSE s1
          IN  [st |-> DeleteLink(s2, link), ret |-> object]

\* the loop of HideMapObjects that puts every object into the result
RECURSIVE HideLoop_InsertsAll(_, _, _, _, _)
HideLoop_InsertsAll(st, objects, i, hidden, updatePathGraph) ==
    IF i > Len(objects) THEN [st |-> st, ret |-> hidden]
    ELSE LET r == HideMapObject(st, objects[i], updatePathGraph)
         IN  HideLoop_InsertsAll(r.st, objects, i + 1,
                                 Append(hidden, objects[i]), updatePathGraph)

RECURSIVE HideLoop(_, _, _, _, _)
HideLoop(st, objects, i, hidden, updatePathGraph) ==
    IF i > Len(objects) THEN [st |-> st, ret |-> hidden]
    ELSE LET r == HideMapObject(st, objects[i], updatePathGraph)
         IN  HideLoop(r.st, objects, i + 1,
                      IF r.ret # NULL THEN Append(hidden, objects[i]) ELSE hidden,
                      updatePathGraph)

HideMapObjects(st, objects, updatePathGraph) ==
    HideLoop(st, objects, 1, <<>>, updatePathGraph)

RECURSIVE UnhideLoop(_, _, _, _, _)
UnhideLoop(st, objects, i, unhidden, updatePathGraph) ==
    IF i > Len(objects) THEN [st |-> st, ret |-> unhidden]
    ELSE LET r == UnhideMapObject(st, objects[i], updatePathGraph)
         IN  UnhideLoop(r.st, objects, i + 1,
                        IF r.ret # NULL THEN Append(unhidden, objects[i])
                        ELSE unhidden,
                        updatePathGraph)

UnhideMapObjects(st, objects, updatePathGraph) ==
    UnhideLoop(st, objects, 1, <<>>, updatePathGraph)

RECURSIVE UnhideAllLoop(_, _, _, _, _)
UnhideAllLoop(st, keyOrder, nObject, unhidden, updatePathGraph) ==
    IF ~(nObject < MapCount(st)) THEN [st |-> st, ret |-> unhidden]
    ELSE LET object == MapGetKey(st, keyOrder, nObject)
             r == UnhideMapObject(st, object, updatePathGraph)
         IN  UnhideAllLoop(r.st, keyOrder, nObject + 1,
                           IF r.ret # NULL THEN Append(unhidden, object)
                           ELSE unhidden,
                           updatePathGraph)

UnhideAllMapObjects(st, keyOrder, updatePathGraph) ==
    UnhideAllLoop(st, keyOrder, 0, <<>>, updatePathGraph)

\* array<Object> built from the links of the array, in the array's order
RECURSIVE LinkObjects(_, _, _)
LinkObjects(st, i, onlyHidden) ==
    IF i > Len(st.arr) THEN <<>>
    ELSE LET link == st.links[st.arr[i]]
         IN  (IF ~onlyHidden \/ link.hidden THEN <<link.ptr>> ELSE <<>>)
             \o LinkObjects(st, i + 1, onlyHidden)

\* GetHiddenMapObjects that does not look at link.hidden
GetHiddenMapObjects_AllLinks(st) == LinkObjects(st, 1, FALSE)

GetHiddenMapObjects(st) == LinkObjects(st, 1, TRUE)

GetRegisteredObjects(st) == LinkObjects(st, 1, FALSE)

_Cleanup(st) == [st EXCEPT !.map = [o \in Objects |-> NoLink],
                           !.arr = <<>>,
                           !.links = [id \in LinkIds |-> Freed]]

\* the sequences of distinct objects
Orders ==
    {objects \in UNION {[1..n -> Objects] : n \in 0..Cardinality(Objects)} :
        \A i, j \in 1..Len(objects) : i # j => objects[i] # objects[j]}

(***************************************************************************)
(* The world query of the engine: the objects within radius of the centre, *)
(* measured in whole metres, on the ground plane or (3D) in space.         *)
(***************************************************************************)
MetreDiff(a, b) == Abs(a - b) \div UnitsPerMetre

InRadius(p, centre, radius, limitHeight) ==
    LET dx == MetreDiff(p[1], centre[1])
        dy == IF limitHeight THEN MetreDiff(p[2], centre[2]) ELSE 0
        dz == MetreDiff(p[3], centre[3])
    IN  /\ dx <= radius /\ dy <= radius /\ dz <= radius
        /\ dx * dx + dy * dy + dz * dz <= radius * radius

\* what GetObjectsAtPosition / GetObjectsAtPosition3D may put into the array:
\* the objects in range, in any order
GetObjectsAtPosition(st, centre, radius, limitHeight) ==
    LET found == {o \in Objects : InRadius(st.pos[o], centre, radius, limitHeight)}
    IN  {objects \in Orders : {objects[i] : i \in 1..Len(objects)} = found}

HideMapObjectsInRadius(st, objects, updatePathGraph) ==
    HideLoop(st, objects, 1, <<>>, updatePathGraph)

UnhideMapObjectsInRadius(st, objects, updatePathGraph) ==
    UnhideMapObjects(st, objects, updatePathGraph)

(***************************************************************************)
(* The state machine: one action per public operation.                     *)
(***************************************************************************)
KeyOrders == {objects \in Orders : Len(objects) = Cardinality(Objects)}

\* the batch calls are made with the default updatePathGraph = true
BatchUpdatePathGraph == {TRUE}

\* what the registry holds, read off the containers
Registered(st) == {o \in Objects : st.map[o] # NoLink}
Hidden(st) == {o \in Registered(st) : st.links[st.map[o]].hidden}

\* the record of a call: the operation, its arguments (obj, objs, upg), what
\* it returned (ret, rets, link), the path graph updates it requested (upd,
\* each with the positions the objects had when it was made), the
\* state of obj when the call was made (was it registered, was it hidden, its
\* flags, event mask and position), whether the call changed anything of
\* the registry or of the objects, and the objects it changed (touched); for
\* a call on an array the objects that were hidden when it was made, for an
\* unhide call the history when it was made
NoCall == [op |-> "none", obj |-> NULL, objs |-> <<>>, upg |-> FALSE,
           ret |-> NULL, rets |-> <<>>, link |-> NoLink, upd |-> <<>>,
           wasRegistered |-> FALSE, wasHidden |-> FALSE,
           wasFlags |-> 0, wasEventMask |-> 0, wasPosition |-> <<0, 0, 0>>,
           changed |-> FALSE, touched |-> {},
           wasHiddenSet |-> {}, wasPending |-> {}]

\* the array holds a link of the object
Listed(arr, heap, o) == \E i \in 1..Len(arr) : heap[arr[i]].ptr = o

\* the objects of which the call that leaves st changed something: the link
\* the map has for it, a field of that link, whether the array lists it, its
\* flags, its event mask or its position
Touched(st) ==
    {o \in Objects :
        \/ st.map[o] # m_RegisteredObjects[o]
        \/ st.flags[o] # flags[o]
        \/ st.eventMask[o] # eventMask[o]
        \/ st.pos[o] # position[o]
        \/ /\ m_RegisteredObjects[o] # NoLink
           /\ st.links[m_RegisteredObjects[o]] # links[m_RegisteredObjects[o]]
        \/ Listed(st.arr, st.links, o)
              # Listed(m_RegisteredObjectsArray, links, o)}

ArrayCalls == {"HideMany", "HideInRadius", "UnhideMany", "UnhideInRadius"}
UnhideCalls == {"Unhide", "UnhideMany", "UnhideInRadius", "UnhideAll"}

\* no query has been made
NoArray == [op |-> "none", objects |-> <<>>]

\* the history after a call: a hide that succeeded opens, an unhide that
\* succeeded and an UnregisterObject close
NextPending(was, call) ==
    LET done == {call.rets[i] : i \in 1..Len(call.rets)}
                  \cup (IF call.ret = NULL THEN {} ELSE {call.ret})
    IN  CASE call.op \in {"Hide", "HideMany", "HideInRadius"} -> was \cup done
          [] call.op \in {"Unhide", "UnhideMany", "UnhideInRadius", "UnhideAll"}
               -> was \ done
          [] call.op = "Unregister" -> was \ {call.obj}
          [] OTHER -> was

Init ==
    /\ flags = [o \in Objects |-> 3]
    /\ eventMask = [o \in Objects |-> 1]
    /\ position = [o \in Objects |-> InitialPosition(o)]
    /\ m_RegisteredObjects = [o \in Objects |-> NoLink]
    /\ m_RegisteredObjectsArray = <<>>
    /\ links = [id \in LinkIds |-> Freed]
    /\ alive = TRUE
    /\ last = [NoCall EXCEPT !.op = "init"]
    /\ held = NoArray
    /\ pending = {}

\* how often the object is parked: the offsets between it and where it stood
Parked(st, object) ==
    (InitialPosition(object)[1] - st.pos[object][1]
        + Metres(HIDE_OBJECT_AXIS_OFFSET) \div 2) \div Metres(HIDE_OBJECT_AXIS_OFFSET)

\* calls are made while the containers exist; the model follows an object
\* until it is parked more than MaxParked times
Running == alive /\ \A o \in Objects : Parked(St, o) <= MaxParked

\* the call leaves the state r.st; call describes it
Commit(r, call) ==
    \E st \in {r.st} :
        /\ flags' = st.flags
        /\ eventMask' = st.eventMask
        /\ position' = st.pos
        /\ m_RegisteredObjects' = st.map
        /\ m_RegisteredObjectsArray' = st.arr
        /\ links' = st.links
        /\ held' = held
        /\ pending' = NextPending(pending, call)
        /\ last' = [call EXCEPT
                       !.upd = st.upd,
                       !.wasRegistered = call.obj \in Registered(St),
                       !.wasHidden = call.obj \in Hidden(St),
                       !.wasFlags = IF call.obj = NULL THEN 0
                                    ELSE flags[call.obj],
                       !.wasEventMask = IF call.obj = NULL THEN 0
                                        ELSE eventMask[call.obj],
                       !.wasPosition = IF call.obj = NULL THEN <<0, 0, 0>>
                                       ELSE position[call.obj],
                       !.changed = ([st EXCEPT !.upd = <<>>] # St),
                       !.touched = Touched(st),
                       !.wasHiddenSet = IF call.op \in ArrayCalls
                                        THEN Hidden(St) ELSE {},
                       !.wasPending = IF call.op \in UnhideCalls
                                      THEN pending ELSE {}]

\* the arrays handed to HideMapObjects / UnhideMapObjects hold map objects,
\* in any order and with repetitions; the radius calls add the other objects
BatchObjects == {"A", "B"}
Batches == UNION {[1..n -> BatchObjects] : n \in 0..MaxBatchLen}
Centres == {InitialPosition("A"), InitialPosition("B")}
Radii == {50}

Register ==
    \E object \in Objects :
        /\ Running
        /\ \E r \in {RegisterObject(St, object)} :
            /\ Commit(r, [NoCall EXCEPT !.op = "Register", !.obj = object,
                                           !.link = r.ret])
            /\ UNCHANGED alive

Unregister ==
    \E object \in ObjectsOrNull :
        /\ Running
        /\ \E r \in {UnregisterObject(St, object)} :
            /\ Commit(r, [NoCall EXCEPT !.op = "Unregister", !.obj = object])
            /\ UNCHANGED alive

Hide ==
    \E object \in ObjectsOrNull, updatePathGraph \in BOOLEAN :
        /\ Running
        /\ \E r \in {HideMapObject(St, object, updatePathGraph)} :
            /\ Commit(r, [NoCall EXCEPT !.op = "Hide", !.obj = object,
                                           !.upg = updatePathGraph,
                                           !.ret = r.ret])
            /\ UNCHANGED alive

Unhide ==
    \E object \in ObjectsOrNull, updatePathGraph \in BOOLEAN :
        /\ Running
        /\ \E r \in {UnhideMapObject(St, object, updatePathGraph)} :
            /\ Commit(r, [NoCall EXCEPT !.op = "Unhide", !.obj = object,
                                           !.upg = updatePathGraph,
                                           !.ret = r.ret])
            /\ UNCHANGED alive

HideMany ==
    \E objects \in Batches, updatePathGraph \in BatchUpdatePathGraph :
        /\ Running
        /\ \E r \in {HideMapObjects(St, objects, updatePathGraph)} :
            /\ Commit(r, [NoCall EXCEPT !.op = "HideMany", !.objs = objects,
                                           !.rets = r.ret])
            /\ UNCHANGED alive

UnhideMany ==
    \E objects \in Batches, updatePathGraph \in BatchUpdatePathGraph :
        /\ Running
        /\ \E r \in {UnhideMapObjects(St, objects, updatePathGraph)} :
            /\ Commit(r, [NoCall EXCEPT !.op = "UnhideMany", !.objs = objects,
                                           !.rets = r.ret])
            /\ UNCHANGED alive

HideInRadius ==
    \E centre \in Centres, radius \in Radii, limitHeight \in BOOLEAN,
       updatePathGraph \in BatchUpdatePathGraph :
        /\ Running
        /\ \E objects \in GetObjectsAtPosition(St, centre, radius, limitHeight) :
             \E r \in {HideMapObjectsInRadius(St, objects, updatePathGraph)} :
                /\ Commit(r, [NoCall EXCEPT !.op = "HideInRadius",
                                               !.objs = objects,
                                               !.rets = r.ret])
                /\ UNCHANGED alive

UnhideInRadius ==
    \E centre \in Centres, radius \in Radii, limitHeight \in BOOLEAN,
       updatePathGraph \in BatchUpdatePathGraph :
        /\ Running
        /\ \E objects \in GetObjectsAtPosition(St, centre, radius, limitHeight) :
             \E r \in {UnhideMapObjectsInRadius(St, objects, updatePathGraph)} :
                /\ Commit(r, [NoCall EXCEPT !.op = "UnhideInRadius",
                                               !.objs = objects,
                                               !.rets = r.ret])
                /\ UNCHANGED alive

UnhideAll ==
    \E keyOrder \in KeyOrders, updatePathGraph \in BatchUpdatePathGraph :
        /\ Running
        /\ \E r \in {UnhideAllMapObjects(St, keyOrder, updatePathGraph)} :
            /\ Commit(r, [NoCall EXCEPT !.op = "UnhideAll",
                                           !.rets = r.ret])
            /\ UNCHANGED alive

\* the engine gives a visible object another flag word and event mask
EngineSetsWords ==
    \E object \in EngineTouched, w \in EngineWords :
        /\ Running
        /\ object \notin Hidden(St)
        /\ Parked(St, object) = 0
        /\ Commit([st |-> [St EXCEPT !.flags[object] = w[1],
                                      !.eventMask[object] = w[2]]],
                  [NoCall EXCEPT !.op = "EngineSetsWords", !.obj = object])
        /\ UNCHANGED alive

Cleanup ==
    /\ Running
    /\ alive' = FALSE
    /\ Commit([st |-> _Cleanup(St)], [NoCall EXCEPT !.op = "Cleanup"])

Next ==
    \/ Register
    \/ Unregister
    \/ Hide
    \/ Unhide
    \/ HideMany
    \/ UnhideMany
    \/ HideInRadius
    \/ UnhideInRadius
    \/ UnhideAll
    \/ EngineSetsWords
    \/ Cleanup

Spec == Init /\ [][Next]_vars

(***************************************************************************)
(* The registry with a caller that asks for the arrays and keeps the one   *)
(* it got last while it goes on calling the single-object operations.      *)
(***************************************************************************)
\* the query hands the caller the array it has built
Answer(query, objects) ==
    /\ held' = [op |-> query, objects |-> objects]
    /\ last' = [NoCall EXCEPT !.op = query, !.rets = objects]
    /\ UNCHANGED <<flags, eventMask, position, m_RegisteredObjects,
                   m_RegisteredObjectsArray, links, alive, pending>>

QueryHidden ==
    /\ Running
    /\ Answer("GetHidden", GetHiddenMapObjects(St))

QueryRegistered ==
    /\ Running
    /\ Answer("GetRegistered", GetRegisteredObjects(St))

NextQuery ==
    \/ Register
    \/ Unregister
    \/ Hide
    \/ Unhide
    \/ QueryHidden
    \/ QueryRegistered

SpecQuery == Init /\ [][NextQuery]_vars

(***************************************************************************)
(* Properties.                                                             *)
(***************************************************************************)
Elements(seq) == {seq[i] : i \in 1..Len(seq)}
NoRepeats(seq) == \A i, j \in 1..Len(seq) : i # j => seq[i] # seq[j]
\* a stands before b in seq
Before(seq, a, b) ==
    \E i, j \in 1..Len(seq) : i < j /\ seq[i] = a /\ seq[j] = b

\* C1: UnhideAllMapObjects returns exactly the objects that were hidden when
\* it was called, each once, and leaves none of them hidden or registered.
C1_UnhideAllReturnsAllHidden ==
    [][last'.op = "UnhideAll" =>
         /\ Elements(last'.rets) = Hidden(St)
         /\ NoRepeats(last'.rets)
         /\ \A o \in Hidden(St) :
               ~IsMapObjectHidden(St', o) /\ ~IsObjectRegistered(St', o)
         /\ GetHiddenMapObjects(St') = <<>>]_vars

\* C2: UnhideAllMapObjects leaves every object that was registered and not
\* hidden as it was: still registered, not returned, same link, same flags,
\* event mask and position.
C2_UnhideAllKeepsVisible ==
    [][last'.op = "UnhideAll" =>
         \A o \in Registered(St) \ Hidden(St) :
            /\ IsObjectRegistered(St', o)
            /\ o \notin Elements(last'.rets)
            /\ m_RegisteredObjects'[o] = m_RegisteredObjects[o]
            /\ links'[m_RegisteredObjects[o]] = links[m_RegisteredObjects[o]]
            /\ flags'[o] = flags[o]
            /\ eventMask'[o] = eventMask[o]
            /\ position'[o] = position[o]]_vars

\* C3: UnhideMapObject on an object that is not registered, or is registered
\* and not hidden, returns NULL and changes nothing: not the map, not the
\* array, not the object's flags, event mask or position.
C3_UnhideRejectsWithoutMutation ==
    (last.op = "Unhide" /\ ~last.wasHidden) =>
        (last.ret = NULL /\ ~last.changed)

\* C4: HideMapObject(O) that succeeds followed by UnhideMapObject(O) leaves O
\* with the flags, event mask and position it had when HideMapObject was
\* called, and neither registered nor hidden.
C4_HideUnhideRoundTrip ==
    [][(/\ last.op = "Hide" /\ last.ret # NULL
        /\ last'.op = "Unhide" /\ last'.obj = last.obj) =>
         /\ flags'[last.obj] = last.wasFlags
         /\ eventMask'[last.obj] = last.wasEventMask
         /\ position'[last.obj] = last.wasPosition
         /\ ~IsObjectRegistered(St', last.obj)
         /\ ~IsMapObjectHidden(St', last.obj)]_vars

\* C5: after a HideMapObject(O) that succeeds O is hidden and registered, its
\* position is the position it had minus 10000 on each axis, and no flag or
\* event bit it had before the call is still set.
C5_HideParksAndClears ==
    (last.op = "Hide" /\ last.ret # NULL) =>
        /\ last.ret = last.obj
        /\ IsMapObjectHidden(St, last.obj)
        /\ IsObjectRegistered(St, last.obj)
        /\ position[last.obj] = VecSub(last.wasPosition, HideOffset)
        /\ BitAnd(flags[last.obj], last.wasFlags, FlagBits) = 0
        /\ BitAnd(eventMask[last.obj], last.wasEventMask, FlagBits) = 0

\* C6: HideMapObject on an object that is hidden already returns NULL and
\* changes nothing (the object is not displaced again), and requests no path
\* graph update.
C6_HideTwiceIsNoOp ==
    (last.op = "Hide" /\ last.wasHidden) =>
        /\ last.ret = NULL
        /\ ~last.changed
        /\ last.upd = <<>>
        /\ position[last.obj] = last.wasPosition

C6_Witness ==
    /\ last.op = "Hide" /\ last.wasHidden /\ last.upg
    /\ CanAffectPathgraph(last.obj)

\* C7: HideMapObject on an object that is no map object (a house, a tree, a
\* bush or an untyped baked object), the null object included, returns NULL
\* and changes nothing: no link is made, map and array stay, the object keeps
\* its flags, event mask and position.
NotAMapObject(object) ==
    \/ object = NULL
    \/ ~(IsUntypedBaked(object) \/ IsKindOfHouse(object)
         \/ IsTree(object) \/ IsBush(object))

C7_HideRejectsNonMapObject ==
    (last.op = "Hide" /\ NotAMapObject(last.obj)) =>
        /\ last.ret = NULL
        /\ ~last.changed
        /\ last.upd = <<>>
        /\ (last.obj # NULL /\ ~last.wasRegistered
                => m_RegisteredObjects[last.obj] = NoLink)

C7_Witness ==
    /\ last.op = "Hide" /\ last.obj # NULL /\ NotAMapObject(last.obj)
    /\ last.upg /\ ~last.wasRegistered
    /\ Hidden(St) # {}

\* C8: the array holds exactly the links the map holds, each once, each the
\* link of the object that is its key: the counts are equal and no object
\* has two links.
C8_RegistryConsistent ==
    /\ NoRepeats(m_RegisteredObjectsArray)
    /\ Elements(m_RegisteredObjectsArray)
         = {m_RegisteredObjects[o] : o \in Registered(St)}
    /\ Len(m_RegisteredObjectsArray) = MapCount(St)
    /\ \A o \in Registered(St) : links[m_RegisteredObjects[o]].ptr = o
    /\ \A o, p \in Registered(St) :
          m_RegisteredObjects[o] = m_RegisteredObjects[p] => o = p

C8_Witness ==
    /\ last.op \in {"Unregister", "Unhide", "UnhideMany", "UnhideAll"}
    /\ last.changed
    /\ Len(m_RegisteredObjectsArray) = 2
    /\ Hidden(St) # {}

\* C9: an object that IsMapObjectHidden reports hidden IsObjectRegistered
\* reports registered; for an object without a link, and for the null
\* object, both answer false.
C9_HiddenImpliesRegistered ==
    \A o \in ObjectsOrNull :
        /\ IsMapObjectHidden(St, o) \in BOOLEAN
        /\ IsObjectRegistered(St, o) \in BOOLEAN
        /\ IsMapObjectHidden(St, o) => IsObjectRegistered(St, o)
        /\ o \notin Registered(St) =>
              ~IsMapObjectHidden(St, o) /\ ~IsObjectRegistered(St, o)
        /\ o \in Hidden(St) => IsMapObjectHidden(St, o)

C9_Witness ==
    /\ Hidden(St) # {}
    /\ Registered(St) \ Hidden(St) # {}
    /\ last.op = "Unregister" /\ last.wasHidden

\* C10: GetHiddenMapObjects and GetRegisteredObjects list the objects in the
\* order in which their links were registered: a link that is made goes
\* behind the links there are, and links that stay keep their order.
C10_RegistrationOrderKept ==
    [][/\ \A a, b \in Registered(St) \cap Registered(St') :
            /\ Before(GetRegisteredObjects(St), a, b)
                  => Before(GetRegisteredObjects(St'), a, b)
            /\ (a \in Hidden(St) /\ a \in Hidden(St')
                /\ b \in Hidden(St) /\ b \in Hidden(St')
                /\ Before(GetHiddenMapObjects(St), a, b))
                  => Before(GetHiddenMapObjects(St'), a, b)
       /\ \A a \in Registered(St), b \in Registered(St') \ Registered(St) :
            Before(GetRegisteredObjects(St'), a, b)]_vars

RECURSIVE Firsts(_, _, _)
Firsts(seq, i, S) ==
    IF i > Len(seq) THEN <<>>
    ELSE (IF seq[i] \in S /\ \A j \in 1..(i - 1) : seq[j] # seq[i]
          THEN <<seq[i]>> ELSE <<>>) \o Firsts(seq, i + 1, S)

\* C12: HideMapObjects and HideMapObjectsInRadius return the input objects
\* that were map objects and not hidden, in input order and each once;
\* every object returned is hidden afterwards, every input object not
\* returned keeps its registration, link, flags, event mask and position.
C12_HideBatchReturnsEligible ==
    last.op \in {"HideMany", "HideInRadius"} =>
        /\ last.rets =
              Firsts(last.objs, 1,
                     {o \in Objects : ~NotAMapObject(o)
                                        /\ o \notin last.wasHiddenSet})
        /\ \A o \in Elements(last.rets) :
              IsMapObjectHidden(St, o) /\ IsObjectRegistered(St, o)
        /\ (Elements(last.objs) \ Elements(last.rets)) \cap last.touched = {}

C12_Witness ==
    /\ last.op = "HideInRadius"
    /\ Len(last.objs) = 2 /\ Len(last.rets) = 1
    /\ NotAMapObject(last.objs[1])
    /\ Cardinality(Hidden(St)) = 2

\* C13: UnhideMapObjects and UnhideMapObjectsInRadius return the input
\* objects that were hidden, in input order and each once; every object
\* returned is visible and unregistered afterwards, every input object not
\* returned keeps its registration and its state.
C13_UnhideBatchReturnsHidden ==
    last.op \in {"UnhideMany", "UnhideInRadius"} =>
        /\ last.rets = Firsts(last.objs, 1, last.wasHiddenSet)
        /\ \A o \in Elements(last.rets) :
              ~IsMapObjectHidden(St, o) /\ ~IsObjectRegistered(St, o)
        /\ (Elements(last.objs) \ Elements(last.rets)) \cap last.touched = {}

\* C14: RegisterObject on an object that has a link returns that link and
\* changes nothing: the link keeps its flags, event mask and hidden, the map
\* and the array stay, also when the object's flags have changed since or
\* the object is hidden.  On an object without a link it makes one link with
\* hidden = false and the object's flags and event mask, and puts it into
\* the map and at the end of the array.
C14_RegisterIsIdempotent ==
    last.op = "Register" =>
        /\ last.link # NoLink
        /\ last.link = m_RegisteredObjects[last.obj]
        /\ last.wasRegistered => ~last.changed
        /\ ~last.wasRegistered =>
              /\ links[last.link] = [ptr |-> last.obj,
                                     flags |-> last.wasFlags,
                                     eventMask |-> last.wasEventMask,
                                     hidden |-> FALSE]
              /\ Cardinality({id \in LinkIds : links[id].ptr = last.obj}) = 1
              /\ Len(m_RegisteredObjectsArray) > 0
              /\ m_RegisteredObjectsArray[Len(m_RegisteredObjectsArray)]
                    = last.link
              /\ Cardinality({i \in 1..Len(m_RegisteredObjectsArray) :
                                m_RegisteredObjectsArray[i] = last.link}) = 1
              /\ last.touched = {last.obj}
              /\ flags[last.obj] = last.wasFlags
              /\ eventMask[last.obj] = last.wasEventMask
              /\ position[last.obj] = last.wasPosition

C14_Witness ==
    /\ last.op = "Register" /\ last.wasRegistered /\ ~last.wasHidden
    /\ links[last.link].flags # flags[last.obj]
    /\ Hidden(St) # {}

\* C15: HideMapObject requests one path graph update when it succeeds,
\* updatePathGraph is true and the object can affect the path graph, and
\* none otherwise; the region is the position the object had before it was
\* moved, minus and plus its clipping radius on each axis, and the object
\* has been moved when the request is made.
C15_HidePathGraphUpdate ==
    last.op = "Hide" =>
        IF last.ret # NULL /\ last.upg /\ CanAffectPathgraph(last.obj)
        THEN /\ Len(last.upd) = 1
             /\ last.upd[1].min =
                   VecSub(last.wasPosition,
                          <<Metres(ClippingInfo(last.obj)),
                            Metres(ClippingInfo(last.obj)),
                            Metres(ClippingInfo(last.obj))>>)
             /\ last.upd[1].max =
                   VecAdd(last.wasPosition,
                          <<Metres(ClippingInfo(last.obj)),
                            Metres(ClippingInfo(last.obj)),
                            Metres(ClippingInfo(last.obj))>>)
             /\ last.upd[1].world[last.obj] # last.wasPosition
             /\ last.upd[1].world[last.obj] = position[last.obj]
        ELSE last.upd = <<>>

C15_Witness ==
    /\ last.op = "Hide" /\ last.ret # NULL /\ last.upg
    /\ CanAffectPathgraph(last.obj)
    /\ last.wasRegistered
    /\ Len(last.upd) = 1

\* C16: while the manager runs, an object is away from where it stood
\* exactly when it is hidden, and then by one offset of 10000 per axis; no
\* object is moved twice, and no object is moved with its flags cleared
\* while it is not hidden or not registered.
C16_DisplacedIffHidden ==
    alive =>
        \A o \in Objects :
            /\ Parked(St, o) = (IF IsMapObjectHidden(St, o) THEN 1 ELSE 0)
            /\ Parked(St, o) <= 1
            /\ ~IsMapObjectHidden(St, o) \/ ~IsObjectRegistered(St, o)
                  => ~(Parked(St, o) > 0 /\ flags[o] = 0 /\ eventMask[o] = 0)

\* C17: HideMapObject(O) and UnhideMapObject(O), whether they succeed or
\* not, change nothing of another object P: not the link the map has for P,
\* not whether the array lists P, not the fields of P's link, not P's flags,
\* event mask or position.
C17_OnlyOwnObjectTouched ==
    last.op \in {"Hide", "Unhide"} => last.touched \subseteq {last.obj}

C17_Witness ==
    /\ last.op = "Unhide" /\ last.ret # NULL
    /\ last.touched = {last.obj}
    /\ Len(m_RegisteredObjectsArray) = 2
    /\ Cardinality(Hidden(St)) = 1

\* C18: an UnhideMapObject(O) that succeeds finds O hidden, and before it
\* there is a HideMapObject(O) that succeeded with no UnhideMapObject(O)
\* that succeeded and no UnregisterObject(O) in between; after it O is not
\* hidden and has no such HideMapObject any more, so a second
\* UnhideMapObject(O) cannot succeed before another HideMapObject(O) has.
C18_UnhideFollowsHide ==
    /\ last.op = "Unhide" /\ last.ret # NULL =>
          last.ret = last.obj /\ last.wasHidden
    /\ last.op \in UnhideCalls =>
          \A o \in Elements(last.rets)
                     \cup (IF last.ret = NULL THEN {} ELSE {last.ret}) :
             /\ o \in last.wasPending
             /\ o \notin pending
             /\ ~IsMapObjectHidden(St, o)
    /\ \A o \in Objects : IsMapObjectHidden(St, o) => o \in pending

C18_Witness ==
    /\ last.op = "Unhide" /\ last.ret # NULL
    /\ last.wasRegistered
    /\ pending # {}
    /\ Registered(St) \ Hidden(St) # {}

====
